---- MODULE Spec2Model ----
(***************************************************************************)
(* A model of canvaz (src/src/canvaz/core.py): the Canvas document, its    *)
(* Node/Edge entities, the JSON file it is loaded from and written to, and *)
(* the selection and mutation methods of class Canvas.                     *)
(*                                                                         *)
(* Python values are tagged records, so that None, strings, integers,      *)
(* enumeration members, dicts and lists stay distinct values:              *)
(*   None  [t |-> "None"]          str   [t |-> "str", s |-> "abc"]        *)
(*   int   [t |-> "int", n |-> 3]  Color [t |-> "Color", name |-> "red"]   *)
(*   dict  [t |-> "dict", d |-> f] list  [t |-> "list", items |-> seq]     *)
(* A JSON text is the tree of what it denotes (null, string, number,       *)
(* object, array), or a text that does not parse.                          *)
(***************************************************************************)
EXTENDS Integers, Sequences, FiniteSets, TLC

\* fs      the files: path -> a file's text, or a missing file
\* canvas  the caller's Canvas object (NoCanvas until one is constructed)
\* saved   the object as it was at the latest to_file call
\* op, ret the latest call with its arguments, and its outcome
VARIABLES fs, canvas, saved, op, ret

vars == <<fs, canvas, saved, op, ret>>

(***************************************************************************)
(* Bounds of the model.                                                    *)
(***************************************************************************)
\* longest "nodes" / "edges" array of a source file
MaxLen == 2
\* add_node is not called on a node collection of this length or longer
MaxNodes == 2

(***************************************************************************)
(* Python values.                                                          *)
(***************************************************************************)
PyNone == [t |-> "None"]

PyStr(s) == [t |-> "str", s |-> s]

PyInt(n) == [t |-> "int", n |-> n]

PyDict(f) == [t |-> "dict", d |-> f]

PyList(q) == [t |-> "list", items |-> q]

\* the empty mapping, as a function with an empty domain
EmptyMap == [k \in {} |-> PyNone]

\* class Color(Enum): the member names
Color == {"gray", "red", "origne", "yellow", "green", "blue", "purpol"}

\* Color.<name>.value
ColorValue(name) ==
  CASE name = "gray" -> "0"
    [] name = "red" -> "1"
    [] name = "origne" -> "2"
    [] name = "yellow" -> "3"
    [] name = "green" -> "4"
    [] name = "blue" -> "5"
    [] name = "purpol" -> "6"

ColorMember(name) == [t |-> "Color", name |-> name]

\* class Range(Enum): member name and value coincide
Range == {"edge", "node", "all"}

\* isinstance(v, Color)
IsColor(v) == v.t = "Color"

\* Python truthiness of the values the model uses
Truthy(v) ==
  CASE v.t = "None" -> FALSE
    [] v.t = "str" -> v.s # ""
    [] v.t = "int" -> v.n # 0
    [] v.t = "dict" -> DOMAIN v.d # {}
    [] v.t = "list" -> Len(v.items) > 0
    [] OTHER -> TRUE

\* dict.get(key): None when the key is absent
DictGet(dct, key) == IF key \in DOMAIN dct.d THEN dct.d[key] ELSE PyNone

\* dict.setdefault(key, value): an existing key keeps its value
SetDefault(dct, key, value) ==
  IF key \in DOMAIN dct.d THEN dct ELSE PyDict((key :> value) @@ dct.d)

\* the outcome of a call: a returned value or a raised exception
Return(v) == [kind |-> "return", val |-> v]

Raise(e) == [kind |-> "raise", exc |-> e]

(***************************************************************************)
(* JSON texts and json.loads / json.dumps.                                 *)
(***************************************************************************)
JNull == [j |-> "null"]

JStr(s) == [j |-> "string", s |-> s]

JNum(n) == [j |-> "number", n |-> n]

JObj(f) == [j |-> "object", members |-> f]

JArr(q) == [j |-> "array", items |-> q]

\* a file's text: one that parses to a JSON value, or one that does not
JsonText(v) == [parses |-> TRUE, value |-> v]

InvalidText == [parses |-> FALSE, chars |-> "{invalid json"]

RECURSIVE FromJson(_)
\* the Python value json.loads builds for a JSON value
FromJson(v) ==
  CASE v.j = "null" -> PyNone
    [] v.j = "string" -> PyStr(v.s)
    [] v.j = "number" -> PyInt(v.n)
    [] v.j = "object" -> PyDict([k \in DOMAIN v.members |-> FromJson(v.members[k])])
    [] v.j = "array" -> PyList([i \in 1..Len(v.items) |-> FromJson(v.items[i])])

RECURSIVE ToJson(_)
\* the JSON value json.dumps writes for a Python value
ToJson(v) ==
  CASE v.t = "None" -> JNull
    [] v.t = "str" -> JStr(v.s)
    [] v.t = "int" -> JNum(v.n)
    [] v.t = "dict" -> JObj([k \in DOMAIN v.d |-> ToJson(v.d[k])])
    [] v.t = "list" -> JArr([i \in 1..Len(v.items) |-> ToJson(v.items[i])])

\* json.loads(text): the parsed value, or JSONDecodeError
JsonLoads(text) ==
  IF text.parses THEN Return(FromJson(text.value)) ELSE Raise("JSONDecodeError")

\* json.dumps(value)
JsonDumps(v) == JsonText(ToJson(v))

(***************************************************************************)
(* Entities.                                                               *)
(***************************************************************************)
\* Node.__init__(node_info)
Node(node_info) ==
  [cls |-> "Node",
   id |-> DictGet(node_info, "id"),
   styleAttributes |-> DictGet(node_info, "styleAttributes"),
   text |-> DictGet(node_info, "text"),
   type |-> DictGet(node_info, "type"),
   width |-> DictGet(node_info, "width"),
   height |-> DictGet(node_info, "height"),
   x |-> DictGet(node_info, "x"),
   y |-> DictGet(node_info, "y"),
   color |-> DictGet(node_info, "color")]

\* Edge.__init__(edge_info)
Edge(edge_info) ==
  [cls |-> "Edge",
   id |-> DictGet(edge_info, "id"),
   fromNode |-> DictGet(edge_info, "fromNode"),
   fromSide |-> DictGet(edge_info, "fromSide"),
   styleAttributes |-> DictGet(edge_info, "styleAttributes"),
   toNode |-> DictGet(edge_info, "toNode"),
   toSide |-> DictGet(edge_info, "toSide"),
   color |-> DictGet(edge_info, "color")]

\* the "color" entry both to_dict methods write
ColorToRaw(c) == IF IsColor(c) THEN PyStr(ColorValue(c.name)) ELSE c

\* a to_dict that leaves the "color" entry out
NodeToDictNoColor(self) ==
  PyDict([k \in {"id", "text", "type", "styleAttributes", "width", "height",
               "x", "y"} |-> self[k]])

\* Node.to_dict()
NodeToDict(self) ==
  PyDict([k \in {"id", "text", "type", "styleAttributes", "width", "height",
               "x", "y", "color"} |->
          IF k = "color" THEN ColorToRaw(self.color) ELSE self[k]])

\* Edge.to_dict()
EdgeToDict(self) ==
  PyDict([k \in {"id", "fromNode", "fromSide", "styleAttributes", "toNode",
               "toSide", "color"} |->
          IF k = "color" THEN ColorToRaw(self.color) ELSE self[k]])

\* obj.to_dict(): the method of the object's own class
ToDict(obj) == IF obj.cls = "Edge" THEN EdgeToDict(obj) ELSE NodeToDict(obj)

\* obj.<name>: an attribute the object has
HasAttr(obj, name) == name \in DOMAIN obj /\ name # "cls"

(***************************************************************************)
(* The files.  A source file holds "nodes" and "edges" as arrays of        *)
(* objects, or lacks them, or does not parse.                              *)
(***************************************************************************)
\* every sequence over S of length at most n
SeqsUpTo(S, n) == UNION {[1..k -> S] : k \in 0..n}

NodeRecords ==
  { JObj([id |-> JStr("n1"), type |-> JStr("text"), text |-> JStr("Hello"),
          x |-> JNum(100), y |-> JNum(0), width |-> JNum(200),
          height |-> JNum(100), color |-> JStr("5")]),
    JObj([id |-> JStr("n1"), text |-> JStr("Hi")]),
    JObj([id |-> JStr("n2"), type |-> JStr("file"), color |-> JStr(""),
          styleAttributes |-> JObj([border |-> JStr("solid")])]) }

EdgeRecords ==
  { JObj([id |-> JStr("e1"), fromNode |-> JStr("n1"), toNode |-> JStr("n2"),
          color |-> JStr("1")]),
    JObj([id |-> JStr("e2"), fromNode |-> JStr("n1"), toNode |-> JStr("zz"),
          label |-> JStr("go")]),
    JObj([id |-> JStr("n1"), fromNode |-> JStr("n2"), toNode |-> JStr("n1"),
          fromSide |-> JStr("left"), toSide |-> JStr("right"),
          color |-> JStr("5")]) }

\* the texts that parse to a document with both arrays
WellFormedTexts ==
  { JsonText(JObj([nodes |-> JArr(ns), edges |-> JArr(es)])) :
      ns \in SeqsUpTo(NodeRecords, MaxLen), es \in SeqsUpTo(EdgeRecords, MaxLen) }

\* texts that parse but lack "nodes", "edges" or both
LackingTexts ==
  { JsonText(JObj([nodes |-> JArr(ns)])) : ns \in SeqsUpTo(NodeRecords, 1) }
    \cup
  { JsonText(JObj([edges |-> JArr(es)])) : es \in SeqsUpTo(EdgeRecords, 1) }
    \cup
  { JsonText(JObj(EmptyMap)) }

SourceTexts == WellFormedTexts \cup LackingTexts \cup {InvalidText}

Missing == [exists |-> FALSE]

File(text) == [exists |-> TRUE, text |-> text]

Paths == {"in.canvas", "out.canvas", "notes.txt"}

\* os.path.exists(file_path)
Exists(fsys, path) == path \in DOMAIN fsys /\ fsys[path].exists

\* file_path.endswith(".canvas")
EndsWithCanvas(path) == path \in {"in.canvas", "out.canvas"}

(***************************************************************************)
(* class Canvas.                                                           *)
(***************************************************************************)
NoCanvas == [constructed |-> FALSE]

\* the rule written as an assignment, record["color"] = "0", which also
\* replaces a colour that is present and falsy
NormalizeColorAssign(rec) ==
  IF ~Truthy(DictGet(rec, "color"))
  THEN PyDict(("color" :> PyStr("0")) @@ rec.d)
  ELSE rec

\* the default-colour rule of Canvas.__init__, on one record of the file
NormalizeColor(rec) ==
  IF ~Truthy(DictGet(rec, "color")) THEN SetDefault(rec, "color", PyStr("0")) ELSE rec

\* one of the two loops of Canvas.__init__ over all.get(key)
NormalizeAll(items) == [i \in 1..Len(items) |-> NormalizeColor(items[i])]

\* self.edges = [Node(i) for i in all.get("edges")]
WrapEdges(items) == [i \in 1..Len(items) |-> Node(items[i])]

\* self.nodes = [Node(i) for i in all.get("nodes")]
WrapNodes(items) == [i \in 1..Len(items) |-> Node(items[i])]

\* a missing file answered with an empty Canvas instead of an exception
NotExistsSoft(file_path) ==
  Return([constructed |-> TRUE, file_path |-> PyNone, all |-> PyDict(EmptyMap),
          edges |-> <<>>, nodes |-> <<>>])

\* assert os.path.exists(file_path), "file_path is not exists"
NotExists(file_path) == Raise("AssertionError")

\* Canvas.__init__(file_path): the object built, or the exception raised
CanvasInit(fsys, file_path) ==
  IF file_path = PyNone THEN Raise("AssertionError")
  ELSE IF ~Exists(fsys, file_path.s) THEN NotExists(file_path)
  ELSE IF ~EndsWithCanvas(file_path.s) THEN Raise("AssertionError")
  ELSE
    LET parsed == JsonLoads(fsys[file_path.s].text) IN
    IF parsed.kind = "raise" THEN parsed
    ELSE
      LET all == parsed.val
          edges == DictGet(all, "edges")
          nodes == DictGet(all, "nodes")
      IN
      IF edges.t # "list" THEN Raise("TypeError")
      ELSE IF nodes.t # "list" THEN Raise("TypeError")
      ELSE
        LET es == NormalizeAll(edges.items)
            ns == NormalizeAll(nodes.items)
        IN
        Return([constructed |-> TRUE,
                file_path |-> file_path,
                all |-> PyDict([k \in DOMAIN all.d |->
                                  IF k = "edges" THEN PyList(es)
                                  ELSE IF k = "nodes" THEN PyList(ns)
                                  ELSE all.d[k]]),
                edges |-> WrapEdges(es),
                nodes |-> WrapNodes(ns)])

\* add_node with the appended record lacking its "id"
AddNodeCallNoId(self, text, color, uuid) ==
  IF ~IsColor(color) THEN [self |-> self, out |-> Raise("AssertionError")]
  ELSE
    [self |-> [self EXCEPT !.nodes =
                 Append(@, Node(PyDict([type |-> PyStr("text"),
                                        text |-> text,
                                        color |-> PyStr(ColorValue(color.name))])))],
     out |-> Return(PyNone)]

\* Canvas.add_node(text, color): the object afterwards and the outcome
AddNodeCall(self, text, color, uuid) ==
  IF ~IsColor(color) THEN [self |-> self, out |-> Raise("AssertionError")]
  ELSE
    [self |-> [self EXCEPT !.nodes =
                 Append(@, Node(PyDict([id |-> PyStr(uuid),
                                        type |-> PyStr("text"),
                                        text |-> text,
                                        x |-> PyInt(0),
                                        y |-> PyInt(0),
                                        width |-> PyInt(250),
                                        height |-> PyInt(60),
                                        color |-> PyStr(ColorValue(color.name))])))],
     out |-> Return(PyNone)]

\* Canvas.add_edge(from_node, to_node, color): a stub, the body is "pass";
\* a fourth positional argument (a label) is one more than it takes
AddEdgeCall(self, from_node, to_node, color, extra) ==
  IF extra # <<>> THEN [self |-> self, out |-> Raise("TypeError")]
  ELSE [self |-> self, out |-> Return(PyNone)]

\* Canvas.delete(): a stub that takes no argument besides self, the body is
\* "pass"; any positional argument is more than it takes
DeleteCall(self, args) ==
  IF args # <<>> THEN [self |-> self, out |-> Raise("TypeError")]
  ELSE [self |-> self, out |-> Return(PyNone)]

\* the ranges with "all" taken as edges followed by nodes
ScopeEdgesFirst(self, range) ==
  CASE range = "edge" -> self.edges
    [] range = "node" -> self.nodes
    [] OTHER -> self.edges \o self.nodes

\* the sequence select_by_id and select_by_color go through for a range
Scope(self, range) ==
  CASE range = "edge" -> self.edges
    [] range = "node" -> self.nodes
    [] OTHER -> self.nodes \o self.edges

\* the first element of objs satisfying the test, or None
RECURSIVE FirstWithId(_, _)
FirstWithId(objs, id) ==
  IF objs = <<>> THEN PyNone
  ELSE IF Head(objs).id = id THEN Head(objs)
  ELSE FirstWithId(Tail(objs), id)

\* Canvas.select_by_id(id, range)
SelectById(self, id, range) == Return(FirstWithId(Scope(self, range), id))

\* a filter that keeps the first match only
RECURSIVE FilterColorFirst(_, _)
FilterColorFirst(objs, value) ==
  IF objs = <<>> THEN <<>>
  ELSE IF Head(objs).color = value THEN <<Head(objs)>>
  ELSE FilterColorFirst(Tail(objs), value)

\* [i for i in objs if check_key(i, key=color)] of select_by_color, where
\* check_key reads key.value
RECURSIVE FilterColor(_, _)
FilterColor(objs, value) ==
  IF objs = <<>> THEN <<>>
  ELSE (IF Head(objs).color = value THEN <<Head(objs)>> ELSE <<>>)
         \o FilterColor(Tail(objs), value)

\* Canvas.select_by_color(color, range)
SelectByColor(self, color, range) ==
  LET objs == Scope(self, range) IN
  IF objs # <<>> /\ ~IsColor(color) THEN Raise("AttributeError")
  ELSE IF objs = <<>> THEN Return(PyList(<<>>))
  ELSE Return(PyList(FilterColor(objs, PyStr(ColorValue(color.name)))))

\* "key in obj_text" on the texts of the model: substring, by case
IsSubstring(key, obj_text) ==
  \/ key = ""
  \/ key = obj_text
  \/ <<key, obj_text>> \in {<<"g", "go">>, <<"o", "go">>}

\* obj.get(key) in check_key: the elements of self.edges are instances of
\* Node, a class with no attribute "get"
ObjGet(obj, key) ==
  IF "cls" \in DOMAIN obj THEN Raise("AttributeError") ELSE Return(DictGet(obj, key))

\* [i for i in objs if check_key(i, key=key)] of select_edges_by_text
RECURSIVE FilterText(_, _)
FilterText(objs, key) ==
  IF objs = <<>> THEN Return(<<>>)
  ELSE LET label == ObjGet(Head(objs), "label") IN
         IF label.kind = "raise" THEN label
         ELSE LET obj_text == IF Truthy(label.val) THEN label.val.s ELSE ""
                  rest == FilterText(Tail(objs), key)
              IN IF rest.kind = "raise" THEN rest
                 ELSE IF IsSubstring(key.s, obj_text)
                      THEN Return(<<Head(objs)>> \o rest.val)
                      ELSE rest

\* Canvas.select_edges_by_text(key)
SelectEdgesByText(self, key) ==
  LET r == FilterText(self.edges, key) IN
    IF r.kind = "raise" THEN r ELSE Return(PyList(r.val))

\* the text Canvas.to_file(file_path) writes
ToFileText(self) ==
  JsonDumps(PyDict([edges |-> PyList([i \in 1..Len(self.edges) |-> ToDict(self.edges[i])]),
                    nodes |-> PyList([i \in 1..Len(self.nodes) |-> ToDict(self.nodes[i])])]))

\* a line of text, as the pieces an f-string puts together
Line(parts) == [parts |-> parts]

\* "\n   ".join(lines), as the lines it yields: joining nothing yields ""
Join(lines) == IF lines = <<>> THEN <<Line(<<>>)>> ELSE lines

\* obj[key] in to_mermaid: the elements of both collections are instances of
\* Node, a class with no __getitem__
GetItem(obj, key) ==
  IF "cls" \in DOMAIN obj THEN Raise("TypeError") ELSE Return(obj.d[key])

\* the loop "for node in nodes": node["id"] is its first statement
RECURSIVE NodeLines(_)
NodeLines(nodes) ==
  IF nodes = <<>> THEN Return(<<>>)
  ELSE LET node_id == GetItem(Head(nodes), "id") IN
         IF node_id.kind = "raise" THEN node_id
         ELSE LET rest == NodeLines(Tail(nodes)) IN
                IF rest.kind = "raise" THEN rest
                ELSE LET text == DictGet(Head(nodes), "text")
                         node_text == IF Truthy(text) THEN text
                                      ELSE DictGet(Head(nodes), "file")
                     IN Return(<<Line(<<node_id.val.s, "[", node_text.s, "]">>)>>
                                 \o rest.val)

\* the loop "for edge in edges": edge["fromNode"] is its first statement
RECURSIVE EdgeLines(_)
EdgeLines(edges) ==
  IF edges = <<>> THEN Return(<<>>)
  ELSE LET from_node == GetItem(Head(edges), "fromNode") IN
         IF from_node.kind = "raise" THEN from_node
         ELSE LET rest == EdgeLines(Tail(edges)) IN
                IF rest.kind = "raise" THEN rest
                ELSE LET edge == Head(edges).d IN
                       Return(<<IF "label" \in DOMAIN edge
                                THEN Line(<<from_node.val.s, " -->|",
                                            edge["label"].s, "| ", edge["toNode"].s>>)
                                ELSE Line(<<from_node.val.s, " --> ",
                                            edge["toNode"].s>>)>>
                                \o rest.val)

\* Canvas.to_mermaid(): the text, as the lines "\n   " separates
ToMermaid(self) ==
  LET node_lines == NodeLines(self.nodes)
      edge_lines == EdgeLines(self.edges)
  IN IF node_lines.kind = "raise" THEN node_lines
     ELSE IF edge_lines.kind = "raise" THEN edge_lines
     ELSE Return([t |-> "str",
                  lines |-> <<Line(<<"graph TD">>)>> \o Join(node_lines.val)
                              \o Join(edge_lines.val)])

(***************************************************************************)
(* The inputs of the calls.                                                *)
(***************************************************************************)
\* str(uuid4())[:16]: the tokens the generator may return
Tokens == {"1b4e28ba-2fa1-11", "6fa459ea-ee8a-3c"}

Texts == {PyStr("X")}

\* ids asked for: ids of the source records, a token, and one nothing has
Ids == {PyStr("n1"), PyStr("e1"), PyStr("zz"), PyStr("1b4e28ba-2fa1-11")}

\* colours passed to add_node and add_edge: the default, a member, a raw string
AddColors == {ColorMember("gray"), ColorMember("red"), PyStr("1")}

\* colours passed to select_by_color: members and raw strings
QueryColors ==
  {ColorMember(c) : c \in {"gray", "red", "blue"}}
    \cup {PyStr("5"), PyStr("#ff0000")}

\* what a caller passes to delete: nothing, or an id and a scope
DeleteArgs == {<<>>, <<PyStr("n1"), "node">>, <<PyStr("e1"), "edge">>}

\* texts searched for: a part of the label "go", and one no label has
TextKeys == {PyStr("g"), PyStr("zz")}

LoadPaths == {PyNone} \cup {PyStr(p) : p \in Paths}

(***************************************************************************)
(* The state machine: a caller holding one Canvas variable.                *)
(***************************************************************************)
Init ==
  /\ \E text \in SourceTexts :
       fs = [p \in Paths |->
               CASE p = "in.canvas" -> File(text)
                 [] p = "out.canvas" -> Missing
                 [] OTHER -> File(JsonText(JObj([nodes |-> JArr(<<>>),
                                                 edges |-> JArr(<<>>)])))]
  /\ canvas = NoCanvas
  /\ saved = NoCanvas
  /\ op = [name |-> "start"]
  /\ ret = Return(PyNone)

\* canvas = Canvas(file_path): the caller constructs its object once
Load ==
  /\ canvas = NoCanvas
  /\ \E file_path \in LoadPaths :
       LET r == CanvasInit(fs, file_path) IN
       /\ canvas' = IF r.kind = "return" THEN r.val ELSE canvas
       /\ ret' = IF r.kind = "return" THEN Return([t |-> "Canvas"]) ELSE r
       /\ op' = [name |-> "load", file_path |-> file_path]
  /\ UNCHANGED <<fs, saved>>

\* canvas.add_node(text, color)
AddNode ==
  /\ canvas # NoCanvas
  /\ Len(canvas.nodes) < MaxNodes
  /\ \E text \in Texts, color \in AddColors, uuid \in Tokens :
       LET r == AddNodeCall(canvas, text, color, uuid) IN
       /\ canvas' = r.self
       /\ ret' = r.out
       /\ op' = [name |-> "add_node", text |-> text, color |-> color,
                 before |-> canvas]
  /\ UNCHANGED <<fs, saved>>

\* canvas.add_edge(from_node, to_node, color) and
\* canvas.add_edge(from_node, to_node, color, label)
AddEdge ==
  /\ canvas # NoCanvas
  /\ \E from_node \in {PyStr("n1")}, to_node \in {PyStr("n2")},
        color \in {ColorMember("blue")}, extra \in {<<>>, <<PyStr("go")>>} :
       LET r == AddEdgeCall(canvas, from_node, to_node, color, extra) IN
       /\ canvas' = r.self
       /\ ret' = r.out
       /\ op' = [name |-> "add_edge", from_node |-> from_node, to_node |-> to_node,
                 color |-> color, extra |-> extra, before |-> canvas]
  /\ UNCHANGED <<fs, saved>>

\* canvas.select_by_id(id, range)
DoSelectById ==
  /\ canvas # NoCanvas
  /\ \E id \in Ids, range \in Range :
       /\ ret' = SelectById(canvas, id, range)
       /\ op' = [name |-> "select_by_id", id |-> id, range |-> range]
  /\ UNCHANGED <<fs, canvas, saved>>

\* canvas.select_by_color(color, range)
DoSelectByColor ==
  /\ canvas # NoCanvas
  /\ \E color \in QueryColors, range \in Range :
       /\ ret' = SelectByColor(canvas, color, range)
       /\ op' = [name |-> "select_by_color", color |-> color, range |-> range]
  /\ UNCHANGED <<fs, canvas, saved>>

\* canvas.to_file("out.canvas")
ToFile ==
  /\ canvas # NoCanvas
  /\ fs' = [fs EXCEPT !["out.canvas"] = File(ToFileText(canvas))]
  /\ saved' = canvas
  /\ ret' = Return(PyNone)
  /\ op' = [name |-> "to_file", file_path |-> PyStr("out.canvas")]
  /\ UNCHANGED canvas

\* Canvas("out.canvas"): a second object, built from the file to_file writes
Reload ==
  /\ canvas # NoCanvas
  /\ ret' = CanvasInit(fs, PyStr("out.canvas"))
  /\ op' = [name |-> "reload", file_path |-> PyStr("out.canvas")]
  /\ UNCHANGED <<fs, canvas, saved>>

\* canvas.delete(), canvas.delete(id, scope)
Delete ==
  /\ canvas # NoCanvas
  /\ \E args \in DeleteArgs :
       LET r == DeleteCall(canvas, args) IN
         /\ canvas' = r.self
         /\ ret' = r.out
         /\ op' = [name |-> "delete", args |-> args, before |-> canvas]
  /\ UNCHANGED <<fs, saved>>

\* canvas.to_mermaid()
DoToMermaid ==
  /\ canvas # NoCanvas
  /\ ret' = ToMermaid(canvas)
  /\ op' = [name |-> "to_mermaid"]
  /\ UNCHANGED <<fs, canvas, saved>>

Next ==
  \/ Load
  \/ AddNode
  \/ AddEdge
  \/ Delete
  \/ DoToMermaid
  \/ ToFile
  \/ Reload

Spec == Init /\ [][Next]_vars

\* canvas.select_edges_by_text(key)
DoSelectEdgesByText ==
  /\ canvas # NoCanvas
  /\ \E key \in TextKeys :
       /\ ret' = SelectEdgesByText(canvas, key)
       /\ op' = [name |-> "select_edges_by_text", key |-> key]
  /\ UNCHANGED <<fs, canvas, saved>>

\* the same caller, querying instead of writing
SelectNext ==
  \/ Load
  \/ AddNode
  \/ DoSelectById
  \/ DoSelectByColor
  \/ DoSelectEdgesByText

SpecSelect == Init /\ [][SelectNext]_vars

(***************************************************************************)
(* A caller holding one entity: it builds a Node or an Edge from a         *)
(* mapping, takes its to_dict() and builds an entity of the same class     *)
(* from that.                                                              *)
(***************************************************************************)
\* the value a mapping gives a field it has
FieldValue ==
  [id |-> PyStr("n1"), text |-> PyStr("Hi"), type |-> PyStr("text"),
   width |-> PyInt(250), height |-> PyInt(60), x |-> PyInt(10), y |-> PyInt(20),
   styleAttributes |-> PyDict([border |-> PyStr("solid")]),
   fromNode |-> PyStr("n1"), toNode |-> PyStr("n2"),
   fromSide |-> PyStr("right"), toSide |-> PyStr("left"), label |-> PyStr("go")]

\* the "color" a mapping may hold: a code, a custom string, "", a member
InfoColors == {PyStr("1"), PyStr("#ff0000"), PyStr(""), ColorMember("red")}

\* the mappings having some of the keys, with and without a "color"
Infos(keys) ==
  LET plain == {PyDict([k \in S |-> FieldValue[k]]) : S \in SUBSET keys}
  IN plain \cup {PyDict(("color" :> c) @@ m.d) : m \in plain, c \in InfoColors}

NodeInfos == Infos({"id", "text", "type", "width", "height", "x", "styleAttributes"})

EdgeInfos == Infos({"id", "fromNode", "toNode", "fromSide", "styleAttributes", "label"})

InitEntity ==
  /\ fs = [p \in Paths |-> Missing]
  /\ canvas = NoCanvas
  /\ saved = NoCanvas
  /\ op = [name |-> "start"]
  /\ ret = Return(PyNone)

\* Node(node_info)
NewNode ==
  /\ op.name = "start"
  /\ \E node_info \in NodeInfos :
       /\ ret' = Return(Node(node_info))
       /\ op' = [name |-> "Node", info |-> node_info]
  /\ UNCHANGED <<fs, canvas, saved>>

\* Edge(edge_info)
NewEdge ==
  /\ op.name = "start"
  /\ \E edge_info \in EdgeInfos :
       /\ ret' = Return(Edge(edge_info))
       /\ op' = [name |-> "Edge", info |-> edge_info]
  /\ UNCHANGED <<fs, canvas, saved>>

\* x.to_dict(), x the entity just built
EntityToDict ==
  /\ op.name \in {"Node", "Edge"}
  /\ ret' = Return(ToDict(ret.val))
  /\ op' = [name |-> "to_dict", self |-> ret.val, info |-> op.info]
  /\ UNCHANGED <<fs, canvas, saved>>

\* Node(x.to_dict()) or Edge(x.to_dict()), by the class of x
Rebuild ==
  /\ op.name = "to_dict"
  /\ ret' = Return(IF op.self.cls = "Edge" THEN Edge(ret.val) ELSE Node(ret.val))
  /\ op' = [name |-> "rebuild", self |-> op.self, raw |-> ret.val, info |-> op.info]
  /\ UNCHANGED <<fs, canvas, saved>>

EntityNext ==
  \/ NewNode
  \/ NewEdge
  \/ EntityToDict
  \/ Rebuild

SpecEntity == InitEntity /\ [][EntityNext]_vars

(***************************************************************************)
(* What the claims are stated over.                                        *)
(***************************************************************************)
\* the parsed content of the file a load call was given
SourceDoc(path) == FromJson(fs[path.s].text.value)

\* the records of one array of that file (none when the array is absent)
SourceRecords(path, key) ==
  IF key \in DOMAIN SourceDoc(path).d THEN SourceDoc(path).d[key].items ELSE <<>>

LoadSucceeded == op.name = "load" /\ ret.kind = "return"

IdsDistinct(objs) ==
  \A i, j \in 1..Len(objs) : i # j => objs[i].id # objs[j].id

IdsOf(objs) == {objs[i].id : i \in 1..Len(objs)}

\* the first index of objs whose element has the id (0 when none has)
FirstIndex(objs, id) ==
  IF \E i \in 1..Len(objs) : objs[i].id = id
  THEN CHOOSE i \in 1..Len(objs) :
         /\ objs[i].id = id
         /\ \A j \in 1..(i - 1) : objs[j].id # id
  ELSE 0

\* the elements of objs whose colour is the code, in order
WithColor(objs, code) == SelectSeq(objs, LAMBDA e : e.color = PyStr(code))

EdgeFields == {"id", "fromNode", "toNode", "fromSide", "toSide", "color"}

(***************************************************************************)
(* C1.  Round trip: writing a Document D with to_file and loading the      *)
(* written file yields node and edge collections of the same length and    *)
(* order as D's, field-for-field equal, each edge with its id, fromNode,   *)
(* toNode, fromSide, toSide and color.                                     *)
(***************************************************************************)
C1_RoundTrip ==
  (op.name = "reload" /\ saved # NoCanvas) =>
    /\ ret.kind = "return"
    /\ Len(ret.val.nodes) = Len(saved.nodes)
    /\ Len(ret.val.edges) = Len(saved.edges)
    /\ \A i \in 1..Len(saved.nodes) : ret.val.nodes[i] = saved.nodes[i]
    /\ \A i \in 1..Len(saved.edges) : \A f \in EdgeFields :
         /\ HasAttr(saved.edges[i], f)
         /\ HasAttr(ret.val.edges[i], f)
         /\ ret.val.edges[i][f] = saved.edges[i][f]

(***************************************************************************)
(* C2.  After a successful load both collections have the length and order *)
(* of the source arrays; every element of the edge collection is an Edge   *)
(* whose id, fromNode and toNode are the source record's, every element of *)
(* the node collection a Node whose id, text and type are the source       *)
(* record's; select_by_id(id, Range.edge) on a loaded edge id returns an   *)
(* Edge exposing fromNode.                                                 *)
(***************************************************************************)
C2_LoadWraps ==
  LoadSucceeded =>
    LET ns == SourceRecords(op.file_path, "nodes")
        es == SourceRecords(op.file_path, "edges")
    IN
    /\ Len(canvas.nodes) = Len(ns)
    /\ Len(canvas.edges) = Len(es)
    /\ \A i \in 1..Len(ns) :
         /\ canvas.nodes[i].cls = "Node"
         /\ \A f \in {"id", "text", "type"} : canvas.nodes[i][f] = DictGet(ns[i], f)
    /\ \A i \in 1..Len(es) :
         /\ canvas.edges[i].cls = "Edge"
         /\ \A f \in {"id", "fromNode", "toNode"} :
              HasAttr(canvas.edges[i], f) /\ canvas.edges[i][f] = DictGet(es[i], f)
         /\ LET found == SelectById(canvas, canvas.edges[i].id, "edge") IN
            found.kind = "return" /\ found.val.cls = "Edge" /\ HasAttr(found.val, "fromNode")

(***************************************************************************)
(* C3.  Load-time colour normalization: after a successful load every node *)
(* and edge whose source record has no color field has color "0", and      *)
(* every one whose source record has a color field keeps that value.       *)
(***************************************************************************)
C3_ColorDefault ==
  LoadSucceeded =>
    LET ns == SourceRecords(op.file_path, "nodes")
        es == SourceRecords(op.file_path, "edges")
        Normal(rec, obj) ==
          IF "color" \in DOMAIN rec.d THEN obj.color = rec.d["color"]
          ELSE obj.color = PyStr("0")
    IN
    /\ Len(canvas.nodes) = Len(ns)
    /\ Len(canvas.edges) = Len(es)
    /\ \A i \in 1..Len(ns) : Normal(ns[i], canvas.nodes[i])
    /\ \A i \in 1..Len(es) : Normal(es[i], canvas.edges[i])

C3_Witness ==
  /\ LoadSucceeded
  /\ \E i \in 1..Len(canvas.nodes) :
       /\ "color" \notin DOMAIN SourceRecords(op.file_path, "nodes")[i].d
       /\ canvas.nodes[i].color = PyStr("0")
  /\ \E i \in 1..Len(canvas.nodes) :
       /\ "color" \in DOMAIN SourceRecords(op.file_path, "nodes")[i].d
       /\ canvas.nodes[i].color = PyStr("")
  /\ \E i \in 1..Len(canvas.edges) :
       "color" \notin DOMAIN SourceRecords(op.file_path, "edges")[i].d

(***************************************************************************)
(* C4.  Load failure discipline: a source file that does not exist, one    *)
(* whose content is not valid JSON and one that is valid JSON but lacks    *)
(* the nodes or edges array are all treated the same way, by raising to    *)
(* the caller (the not-found signal for the first, a malformed-document    *)
(* signal for the other two), and none of them yields a Document.          *)
(***************************************************************************)
C4_NotFound ==
  /\ op.name = "load"
  /\ op.file_path # PyNone
  /\ ~fs[op.file_path.s].exists

C4_NotJson ==
  /\ op.name = "load"
  /\ op.file_path # PyNone
  /\ fs[op.file_path.s].exists
  /\ EndsWithCanvas(op.file_path.s)
  /\ ~fs[op.file_path.s].text.parses

C4_LacksArray ==
  /\ op.name = "load"
  /\ op.file_path # PyNone
  /\ fs[op.file_path.s].exists
  /\ EndsWithCanvas(op.file_path.s)
  /\ fs[op.file_path.s].text.parses
  /\ {"nodes", "edges"} \ DOMAIN SourceDoc(op.file_path).d # {}

C5_SelectById ==
  op.name = "select_by_id" =>
    LET objs == IF op.range = "node" THEN canvas.nodes
                ELSE IF op.range = "edge" THEN canvas.edges
                ELSE canvas.nodes \o canvas.edges
        k == FirstIndex(objs, op.id)
    IN
    /\ ret.kind = "return"
    /\ k = 0 => ret.val = PyNone
    /\ k # 0 => ret.val = objs[k]
    /\ (op.range = "all" /\ op.id \in IdsOf(canvas.nodes)) =>
         ret.val = canvas.nodes[FirstIndex(canvas.nodes, op.id)]

C5_Witness ==
  /\ op.name = "select_by_id"
  /\ op.range = "all"
  /\ op.id \in IdsOf(canvas.nodes)
  /\ op.id \in IdsOf(canvas.edges)
  /\ ret.val = canvas.nodes[FirstIndex(canvas.nodes, op.id)]
  /\ ret.val # canvas.edges[FirstIndex(canvas.edges, op.id)]

(***************************************************************************)
(* C6.  For every Color member c, select_by_color(c, Range.all) is the     *)
(* list select_by_color(c, Range.node) followed by select_by_color(c,      *)
(* Range.edge), and each scoped result holds exactly the entities of that  *)
(* collection whose colour code is c's, in collection order.               *)
(***************************************************************************)
C6_SelectByColor ==
  (op.name = "select_by_color" /\ IsColor(op.color)) =>
    LET code == ColorValue(op.color.name)
        byNode == SelectByColor(canvas, op.color, "node")
        byEdge == SelectByColor(canvas, op.color, "edge")
    IN
    /\ ret.kind = "return"
    /\ byNode.kind = "return"
    /\ byEdge.kind = "return"
    /\ byNode.val.items = WithColor(canvas.nodes, code)
    /\ byEdge.val.items = WithColor(canvas.edges, code)
    /\ op.range = "node" => ret = byNode
    /\ op.range = "edge" => ret = byEdge
    /\ op.range = "all" => ret.val.items = byNode.val.items \o byEdge.val.items

C6_Witness ==
  /\ op.name = "select_by_color"
  /\ IsColor(op.color)
  /\ op.range = "all"
  /\ WithColor(canvas.nodes, ColorValue(op.color.name)) # <<>>
  /\ WithColor(canvas.edges, ColorValue(op.color.name)) # <<>>
  /\ Len(ret.val.items) >= 3

(***************************************************************************)
(* C7.  select_by_color called with a raw string s does not raise and      *)
(* returns exactly the entities of the scope whose colour equals s, the    *)
(* list it returns for the Color member whose code is s when there is one. *)
(***************************************************************************)
C7_RawColor ==
  (op.name = "select_by_color" /\ op.color.t = "str") =>
    LET objs == IF op.range = "node" THEN canvas.nodes
                ELSE IF op.range = "edge" THEN canvas.edges
                ELSE canvas.nodes \o canvas.edges
    IN
    /\ ret.kind = "return"
    /\ ret.val.items = WithColor(objs, op.color.s)
    /\ \A c \in Color :
         ColorValue(c) = op.color.s => ret = SelectByColor(canvas, ColorMember(c), op.range)

(***************************************************************************)
(* C8.  On a Document whose node ids are pairwise distinct, each add_node  *)
(* call makes the node collection one longer and the added node's id is a  *)
(* non-empty string that no node already in the collection has, so the     *)
(* node ids stay pairwise distinct, whatever token the generator returns.  *)
(***************************************************************************)
C8_FreshId ==
  (op.name = "add_node" /\ ret.kind = "return" /\ IdsDistinct(op.before.nodes)) =>
    /\ Len(canvas.nodes) = Len(op.before.nodes) + 1
    /\ canvas.nodes[Len(canvas.nodes)].id.t = "str"
    /\ canvas.nodes[Len(canvas.nodes)].id.s # ""
    /\ canvas.nodes[Len(canvas.nodes)].id \notin IdsOf(op.before.nodes)
    /\ IdsDistinct(canvas.nodes)

(***************************************************************************)
(* C8 as amended.  Each add_node call that returns makes the node          *)
(* collection one longer, and the added node's id is a non-empty string,   *)
(* one of the generator's tokens; nothing compares it with the ids already *)
(* in the collection.                                                      *)
(***************************************************************************)
C8_GrowsByOne ==
  (op.name = "add_node" /\ ret.kind = "return") =>
    /\ Len(canvas.nodes) = Len(op.before.nodes) + 1
    /\ canvas.nodes[Len(canvas.nodes)].id.t = "str"
    /\ canvas.nodes[Len(canvas.nodes)].id.s # ""
    /\ canvas.nodes[Len(canvas.nodes)].id.s \in Tokens

C8_Witness ==
  /\ op.name = "add_node"
  /\ ret.kind = "return"
  /\ IdsDistinct(op.before.nodes)
  /\ Len(op.before.nodes) > 0
  /\ canvas.nodes[Len(canvas.nodes)].id \in IdsOf(op.before.nodes)

(***************************************************************************)
(* C9.  add_node(text, color) returns the created Node, which is the last  *)
(* element of the node collection, with the given text, the code string of *)
(* color ("0" when omitted), type "text", position (0,0) and size 250x60;  *)
(* the nodes present before keep their position and fields and the edge    *)
(* collection is unchanged.                                                *)
(***************************************************************************)
C9_AddNodeReturns ==
  (op.name = "add_node" /\ IsColor(op.color)) =>
    LET last == canvas.nodes[Len(canvas.nodes)] IN
    /\ Len(canvas.nodes) = Len(op.before.nodes) + 1
    /\ last.text = op.text
    /\ last.color = PyStr(ColorValue(op.color.name))
    /\ last.type = PyStr("text")
    /\ last.x = PyInt(0) /\ last.y = PyInt(0)
    /\ last.width = PyInt(250) /\ last.height = PyInt(60)
    /\ SubSeq(canvas.nodes, 1, Len(op.before.nodes)) = op.before.nodes
    /\ canvas.edges = op.before.edges
    /\ ret = Return(last)

(***************************************************************************)
(* C10.  add_edge(from_id, to_id, color, label) makes the edge collection  *)
(* one longer and returns the created Edge, with fromNode = from_id,       *)
(* toNode = to_id, the code string of color and the label; it does not     *)
(* raise whether or not the ids are ids of nodes, and leaves the node      *)
(* collection unchanged.                                                   *)
(***************************************************************************)
C10_AddEdge ==
  op.name = "add_edge" =>
    /\ ret.kind = "return"
    /\ canvas.nodes = op.before.nodes
    /\ Len(canvas.edges) = Len(op.before.edges) + 1
    /\ ret.val = canvas.edges[Len(canvas.edges)]
    /\ ret.val.fromNode = op.from_node
    /\ ret.val.toNode = op.to_node
    /\ ret.val.color = PyStr(ColorValue(op.color.name))
    /\ op.extra # <<>> => (HasAttr(ret.val, "label") /\ ret.val.label = op.extra[1])

(***************************************************************************)
(* C11.  delete(id, scope) removes the first entity with that id from the  *)
(* collection the scope indicates and returns True, after which            *)
(* select_by_id on that scope returns None when the id was unique there    *)
(* and the other collection keeps its length; when no entity of the scope  *)
(* has the id it returns False and both collections are unchanged.         *)
(***************************************************************************)
C11_Delete ==
  (op.name = "delete" /\ op.args # <<>>) =>
    LET id    == op.args[1]
        scope == op.args[2]
        objs  == Scope(op.before, scope)
        k     == FirstIndex(objs, id)
    IN /\ ret.kind = "return"
       /\ IF k = 0
            THEN /\ ret.val = FALSE
                 /\ canvas = op.before
            ELSE /\ ret.val = TRUE
                 /\ Scope(canvas, scope)
                      = [i \in 1..(Len(objs) - 1) |->
                           IF i < k THEN objs[i] ELSE objs[i + 1]]
                 /\ (Cardinality({i \in 1..Len(objs) : objs[i].id = id}) = 1 =>
                       SelectById(canvas, id, scope) = Return(PyNone))
                 /\ IF scope = "node"
                      THEN Len(canvas.edges) = Len(op.before.edges)
                      ELSE Len(canvas.nodes) = Len(op.before.nodes)
(***************************************************************************)
(* C12.  to_mermaid on a loaded Canvas, with or without nodes and edges    *)
(* and also after add_node, never raises; the text it returns is the       *)
(* graph-declaration line, then one line "id[label]" per node in the order *)
(* of the node collection, then one line per edge in the order of the edge *)
(* collection, "from -->|label| to" when the edge has a label and          *)
(* "from --> to" otherwise.                                                *)
(***************************************************************************)
C12_ToMermaid ==
  op.name = "to_mermaid" =>
    /\ ret.kind = "return"
    /\ SelectSeq(ret.val.lines, LAMBDA l : l.parts # <<>>)
         = <<Line(<<"graph TD">>)>>
             \o [i \in 1..Len(canvas.nodes) |->
                   Line(<<canvas.nodes[i].id.s, "[", canvas.nodes[i].text.s, "]">>)]
             \o [i \in 1..Len(canvas.edges) |->
                   IF HasAttr(canvas.edges[i], "label")
                   THEN Line(<<canvas.edges[i].fromNode.s, " -->|",
                               canvas.edges[i].label.s, "| ",
                               canvas.edges[i].toNode.s>>)
                   ELSE Line(<<canvas.edges[i].fromNode.s, " --> ",
                               canvas.edges[i].toNode.s>>)]
(***************************************************************************)
(* C13.  Building an entity applies defaults for the fields its mapping    *)
(* lacks: a Node gets a generated non-empty string id, type "text", color  *)
(* "0", x 0, y 0, width 200, height 100 and styleAttributes {}; an Edge    *)
(* gets a generated id, color "0", fromSide "", toSide "" and              *)
(* styleAttributes {}; no field the mapping lacks is left as None.         *)
(***************************************************************************)
C13_Defaults ==
  op.name \in {"Node", "Edge"} =>
    LET x == ret.val
        Absent(f) == f \notin DOMAIN op.info.d
        Default(f, v) == Absent(f) => x[f] = v
    IN /\ \A f \in DOMAIN x \ {"cls"} : Absent(f) => x[f] # PyNone
       /\ Absent("id") => (x.id.t = "str" /\ x.id.s # "")
       /\ Default("color", PyStr("0"))
       /\ Default("styleAttributes", PyDict(EmptyMap))
       /\ x.cls = "Node" =>
            /\ Default("type", PyStr("text"))
            /\ Default("x", PyInt(0))
            /\ Default("y", PyInt(0))
            /\ Default("width", PyInt(200))
            /\ Default("height", PyInt(100))
       /\ x.cls = "Edge" =>
            /\ Default("fromSide", PyStr(""))
            /\ Default("toSide", PyStr(""))
(***************************************************************************)
(* C14.  For every Node or Edge x, to_dict writes the code string of a     *)
(* Color member under "color" and writes any other colour as it is, and    *)
(* the entity built from x.to_dict() equals x in every field; an Edge      *)
(* built from a mapping with a label holds it, and so does the rebuilt     *)
(* Edge.                                                                   *)
(***************************************************************************)
C14_EntityRoundTrip ==
  /\ op.name = "to_dict" =>
       ret.val.d["color"] = IF IsColor(op.self.color)
                            THEN PyStr(ColorValue(op.self.color.name))
                            ELSE op.self.color
  /\ op.name = "rebuild" =>
       /\ ret.val = op.self
       /\ (op.self.cls = "Edge" /\ "label" \in DOMAIN op.info.d) =>
            /\ HasAttr(op.self, "label")
            /\ HasAttr(ret.val, "label")
            /\ ret.val.label = op.self.label
(***************************************************************************)
(* C15.  select_edges_by_text(s) never raises, whatever the Canvas holds,  *)
(* a non-empty edge collection included; it returns, in the order of the   *)
(* edge collection, exactly the edges whose label contains s as a          *)
(* substring, by case, an edge without a label counting as "", and the     *)
(* empty list when no edge matches.                                        *)
(***************************************************************************)
C15_SelectEdgesByText ==
  op.name = "select_edges_by_text" =>
    LET LabelOf(e) == IF HasAttr(e, "label") /\ e.label.t = "str"
                      THEN e.label.s ELSE ""
    IN /\ ret.kind = "return"
       /\ ret.val = PyList(SelectSeq(canvas.edges,
                                    LAMBDA e : IsSubstring(op.key.s, LabelOf(e))))
(***************************************************************************)
(* C16.  The default-colour rule is idempotent: applied to the records a   *)
(* load has normalized it changes none of them, so loading a file, writing *)
(* it with to_file and loading what was written gives every node and every *)
(* edge the colour it had when it was written.                             *)
(***************************************************************************)
C16_NormalizeIdempotent ==
  LET Normalized(c) ==
        \A k \in {"nodes", "edges"} : \A i \in 1..Len(c.all.d[k].items) :
          NormalizeColor(c.all.d[k].items[i]) = c.all.d[k].items[i]
      Colors(objs) == [i \in 1..Len(objs) |-> objs[i].color]
  IN /\ canvas # NoCanvas => Normalized(canvas)
     /\ (op.name = "reload" /\ saved # NoCanvas) =>
          /\ ret.kind = "return"
          /\ Normalized(ret.val)
          /\ Colors(ret.val.nodes) = Colors(saved.nodes)
          /\ Colors(ret.val.edges) = Colors(saved.edges)

C16_Witness ==
  /\ op.name = "reload"
  /\ saved # NoCanvas
  /\ ret.kind = "return"
  /\ saved.edges # <<>>
  /\ \E i \in 1..Len(saved.nodes) :
       /\ i <= Len(SourceRecords(saved.file_path, "nodes"))
       /\ "color" \notin DOMAIN SourceRecords(saved.file_path, "nodes")[i].d
       /\ ret.val.nodes[i].color = PyStr("0")
  /\ \E i \in 1..Len(saved.nodes) : ret.val.nodes[i].color = PyStr("")
====
